---- MODULE Spec2Model ----
(***************************************************************************)
(* Model of graft's durable election state store (log.go): the node's      *)
(* term and vote are serialized to JSON, wrapped in an envelope carrying a  *)
(* SHA1 digest, and written to one backing file; readState loads, verifies  *)
(* and decodes it.  Byte strings are sequences of byte values (0..255).     *)
(***************************************************************************)
EXTENDS Integers, Sequences, FiniteSets, TLC

(***************************************************************************)
(* Bounds of the model.                                                     *)
(***************************************************************************)
\* the terms a node is given range over 0..MaxTerm
MaxTerm == 1
\* a write(2) call of the model transfers at most MaxChunk bytes
MaxChunk == 64

(***************************************************************************)
(* Byte-string helpers.                                                     *)
(***************************************************************************)
Min(a, b) == IF a < b THEN a ELSE b

\* bytes.Equal
BytesEqual(a, b) == a = b

\* s[from..] (empty when from is past the end)
Tail_(s, from) == SubSeq(s, from, Len(s))

\* does s start with prefix p
HasPrefix(s, p) == Len(s) >= Len(p) /\ SubSeq(s, 1, Len(p)) = p

\* index of the first element of s equal to c at or after position from, 0 if none
RECURSIVE IndexFrom(_, _, _)
IndexFrom(s, c, from) ==
    IF from > Len(s) THEN 0
    ELSE IF s[from] = c THEN from
    ELSE IndexFrom(s, c, from + 1)

(***************************************************************************)
(* crypto/sha1.  The digest is modelled as a deterministic checksum of      *)
(* fixed length Size: two independent 16-bit polynomial folds of the input  *)
(* spread over Size bytes.  Only determinism, the fixed length and          *)
(* sensitivity to the input are relied upon.                                *)
(***************************************************************************)
Size == 20

RECURSIVE Fold(_, _, _, _)
Fold(data, i, h, m) ==
    IF i > Len(data) THEN h
    ELSE Fold(data, i + 1, (h * 257 + data[i] + 1) % m, m)

Sum(data) ==
    LET h1 == Fold(data, 1, 7, 65521)
        h2 == Fold(data, 1, 11, 65519)
    IN [i \in 1..Size |->
          CASE i % 4 = 1 -> (h1 + i) % 256
            [] i % 4 = 2 -> ((h1 \div 256) + i) % 256
            [] i % 4 = 3 -> (h2 + i) % 256
            [] OTHER     -> ((h2 \div 256) + i) % 256]

(***************************************************************************)
(* encoding/base64 (StdEncoding), used by encoding/json for []byte fields.  *)
(***************************************************************************)
\* the character of a 6-bit value
B64Char(v) ==
    IF v < 26 THEN 65 + v
    ELSE IF v < 52 THEN 97 + (v - 26)
    ELSE IF v < 62 THEN 48 + (v - 52)
    ELSE IF v = 62 THEN 43
    ELSE 47

\* the 6-bit value of a character, -1 if it is not in the alphabet
B64Val(c) ==
    IF c >= 65 /\ c <= 90 THEN c - 65
    ELSE IF c >= 97 /\ c <= 122 THEN c - 97 + 26
    ELSE IF c >= 48 /\ c <= 57 THEN c - 48 + 52
    ELSE IF c = 43 THEN 62
    ELSE IF c = 47 THEN 63
    ELSE -1

Pad == 61

RECURSIVE B64Encode(_)
B64Encode(b) ==
    IF Len(b) = 0 THEN << >>
    ELSE IF Len(b) = 1 THEN
        << B64Char(b[1] \div 4), B64Char((b[1] % 4) * 16), Pad, Pad >>
    ELSE IF Len(b) = 2 THEN
        << B64Char(b[1] \div 4),
           B64Char((b[1] % 4) * 16 + (b[2] \div 16)),
           B64Char((b[2] % 16) * 4), Pad >>
    ELSE
        << B64Char(b[1] \div 4),
           B64Char((b[1] % 4) * 16 + (b[2] \div 16)),
           B64Char((b[2] % 16) * 4 + (b[3] \div 64)),
           B64Char(b[3] % 64) >> \o B64Encode(Tail_(b, 4))

\* decoding result: [ok |-> BOOLEAN, val |-> bytes]
B64Fail == [ok |-> FALSE, val |-> << >>]

RECURSIVE B64Decode(_)
B64Decode(s) ==
    IF Len(s) = 0 THEN [ok |-> TRUE, val |-> << >>]
    ELSE IF Len(s) < 4 THEN B64Fail
    ELSE
        LET v1 == B64Val(s[1])
            v2 == B64Val(s[2])
            v3 == B64Val(s[3])
            v4 == B64Val(s[4])
            last == Len(s) = 4
        IN IF v1 < 0 \/ v2 < 0 THEN B64Fail
           ELSE IF last /\ s[3] = Pad /\ s[4] = Pad THEN
               [ok |-> TRUE, val |-> << v1 * 4 + (v2 \div 16) >>]
           ELSE IF v3 < 0 THEN B64Fail
           ELSE IF last /\ s[4] = Pad THEN
               [ok |-> TRUE,
                val |-> << v1 * 4 + (v2 \div 16),
                           (v2 % 16) * 16 + (v3 \div 4) >>]
           ELSE IF v4 < 0 THEN B64Fail
           ELSE
               LET rest == B64Decode(Tail_(s, 5))
               IN IF ~rest.ok THEN B64Fail
                  ELSE [ok |-> TRUE,
                        val |-> << v1 * 4 + (v2 \div 16),
                                   (v2 % 16) * 16 + (v3 \div 4),
                                   (v3 % 4) * 64 + v4 >> \o rest.val]

(***************************************************************************)
(* encoding/json, restricted to the two shapes log.go marshals.  Marshal    *)
(* emits the fields in declaration order without white space; Unmarshal     *)
(* accepts exactly that layout and reports a syntax error for anything      *)
(* else (truncated input, trailing bytes, bad base64, bad number).          *)
(***************************************************************************)
Quote == 34

\* {"SHA":"
KeySHA == << 123, 34, 83, 72, 65, 34, 58, 34 >>
\* ","Data":"
KeyData == << 34, 44, 34, 68, 97, 116, 97, 34, 58, 34 >>
\* "}
CloseStr == << 34, 125 >>
\* {"CurrentTerm":
KeyTerm == << 123, 34, 67, 117, 114, 114, 101, 110, 116, 84, 101, 114, 109, 34, 58 >>
\* ,"VotedFor":"
KeyVote == << 44, 34, 86, 111, 116, 101, 100, 70, 111, 114, 34, 58, 34 >>

\* type envelope struct { SHA, Data []byte }
Envelope(sha, data) == [SHA |-> sha, Data |-> data]

\* type persistentState struct { CurrentTerm uint64; VotedFor string }
PersistentState(t, v) == [CurrentTerm |-> t, VotedFor |-> v]

\* decimal digits of an unsigned integer
RECURSIVE FormatUint(_)
FormatUint(n) ==
    IF n < 10 THEN << 48 + n >>
    ELSE Append(FormatUint(n \div 10), 48 + (n % 10))

IsDigit(c) == c >= 48 /\ c <= 57

\* value of a digit string, most significant digit first
RECURSIVE ParseUint(_)
ParseUint(d) ==
    IF Len(d) = 0 THEN 0
    ELSE ParseUint(SubSeq(d, 1, Len(d) - 1)) * 10 + (d[Len(d)] - 48)

\* a JSON number of the form 0 | [1-9][0-9]*, short enough for uint64
IsNumber(d) ==
    /\ Len(d) >= 1
    /\ Len(d) <= 9
    /\ \A i \in 1..Len(d) : IsDigit(d[i])
    /\ (Len(d) > 1 => d[1] # 48)

\* a character a JSON string holds unescaped
PlainChar(c) == c >= 32 /\ c < 127 /\ c # Quote /\ c # 92

\* json.Marshal(ps)
MarshalState(ps) ==
    KeyTerm \o FormatUint(ps.CurrentTerm) \o KeyVote \o ps.VotedFor \o CloseStr

\* json.Marshal(env)
MarshalEnvelope(env) ==
    KeySHA \o B64Encode(env.SHA) \o KeyData \o B64Encode(env.Data) \o CloseStr

JsonFail == [ok |-> FALSE, val |-> << >>]

\* json.Unmarshal(buf, env)
UnmarshalEnvelope(buf) ==
    IF ~HasPrefix(buf, KeySHA) THEN JsonFail
    ELSE
        LET a == Len(KeySHA) + 1
            q1 == IndexFrom(buf, Quote, a)
        IN IF q1 = 0 \/ ~HasPrefix(Tail_(buf, q1), KeyData) THEN JsonFail
           ELSE
               LET b == q1 + Len(KeyData)
                   q2 == IndexFrom(buf, Quote, b)
               IN IF q2 = 0 \/ Tail_(buf, q2) # CloseStr THEN JsonFail
                  ELSE
                      LET sha == B64Decode(SubSeq(buf, a, q1 - 1))
                          data == B64Decode(SubSeq(buf, b, q2 - 1))
                      IN IF ~sha.ok \/ ~data.ok THEN JsonFail
                         ELSE [ok |-> TRUE, val |-> Envelope(sha.val, data.val)]

\* json.Unmarshal(env.Data, ps)
UnmarshalState(data) ==
    IF ~HasPrefix(data, KeyTerm) THEN JsonFail
    ELSE
        LET a == Len(KeyTerm) + 1
            c == IndexFrom(data, 44, a)
        IN IF c = 0 \/ ~IsNumber(SubSeq(data, a, c - 1))
                 \/ ~HasPrefix(Tail_(data, c), KeyVote) THEN JsonFail
           ELSE
               LET b == c + Len(KeyVote)
                   q == IndexFrom(data, Quote, b)
               IN IF q = 0 \/ Tail_(data, q) # CloseStr
                        \/ ~(\A i \in b..(q - 1) : PlainChar(data[i])) THEN JsonFail
                  ELSE [ok |-> TRUE,
                        val |-> PersistentState(ParseUint(SubSeq(data, a, c - 1)),
                                                SubSeq(data, b, q - 1))]

(***************************************************************************)
(* The program's state.                                                     *)
(***************************************************************************)
\* the Node objects; "n2" is the second node a test opens on the same log
Nodes == {"n1", "n2"}
\* goroutines: the caller of New/Close/writeState and a node's own goroutine
Threads == {"main", "bg"}
\* the backing file, and a path inside a directory without search permission
LogFile == "log"
Denied == "denied"
Paths == {LogFile, Denied}

\* the terms and votes nodes are given
Terms == 0..MaxTerm
\* "" and "foo"
NoVote == << >>
Foo == << 102, 111, 111 >>
Votes == {NoVote, Foo}
\* "ZZZZ"
Junk == << 90, 90, 90, 90 >>

\* error values
ErrNil == "nil"
ErrLogNoState == "ErrLogNoState"
ErrLogCorrupt == "ErrLogCorrupt"
ErrJSON == "json.SyntaxError"
ENOENT == "ENOENT"
EACCES == "EACCES"
ENOSPC == "ENOSPC"

\* a nil *persistentState, and a pointer to one
Nil == << >>
Ptr(ps) == << ps >>

VARIABLES
    term,       \* n.term
    vote,       \* n.vote
    logPath,    \* n.logPath
    mu,         \* n.mu: the goroutine holding it, "" when unlocked
    phase,      \* where each Node is in its life: none, init, open, failed, closed
    fs,         \* the file system: the backing file's existence and bytes
    pc,         \* each goroutine's position
    frame       \* each goroutine's local variables

vars == << term, vote, logPath, mu, phase, fs, pc, frame >>

\* the locals of a call: the node it is on, writeState's ps, logPath and
\* toWrite, the descriptor and offset inside os.WriteFile, readState's buf
\* and result, and the returned error.  latest is history: ps is the most
\* recent snapshot taken of the node and no setTerm or setVote came after it
NoFrame ==
    [n |-> "", ps |-> Nil, logPath |-> "", toWrite |-> << >>, off |-> 0,
     fd |-> "none", buf |-> << >>, rps |-> Nil, err |-> ErrNil,
     latest |-> FALSE]

\* the frames once no snapshot is the latest any more
Outdated(fr) == [u \in Threads |-> [fr[u] EXCEPT !.latest = FALSE]]

NoFile == [exists |-> FALSE, data |-> << >>]
File(data) == [exists |-> TRUE, data |-> data]

Init ==
    /\ term = [n \in Nodes |-> 0]
    /\ vote = [n \in Nodes |-> NoVote]
    /\ logPath = [n \in Nodes |-> ""]
    /\ mu = [n \in Nodes |-> ""]
    /\ phase = [n \in Nodes |-> "none"]
    /\ fs = NoFile
    /\ pc = [t \in Threads |-> "idle"]
    /\ frame = [t \in Threads |-> NoFrame]

\* n1 is the node that runs elections: its term and vote are set and written
\* by the caller and by its own goroutine; n2 is only opened, read and closed
MayCall(t, n) == n = "n1"

(***************************************************************************)
(* readState (log.go:87-121) as a function of the file system.              *)
(***************************************************************************)
\* variant: the error of os.ReadFile is dropped and buf is then empty
ReadFile_IgnoreError(f, path) ==
    IF path # LogFile \/ ~f.exists THEN [err |-> ErrNil, buf |-> << >>]
    ELSE [err |-> ErrNil, buf |-> f.data]

\* os.ReadFile(path)
ReadFile(f, path) ==
    IF path = Denied THEN [err |-> EACCES, buf |-> << >>]
    ELSE IF path # LogFile \/ ~f.exists THEN [err |-> ENOENT, buf |-> << >>]
    ELSE [err |-> ErrNil, buf |-> f.data]

\* sha[:] equals env.SHA
PrimaryOK(env) == BytesEqual(Sum(env.Data), env.SHA)

\* legacyDigest equals env.SHA
LegacyOK(env) == BytesEqual(env.Data \o Sum(<< >>), env.SHA)

\* variant: both checks are required
Verified_BothRequired(env) == PrimaryOK(env) /\ LegacyOK(env)

\* variant: the negation of the primary test is lost
Verified_Inverted(env) ==
    IF PrimaryOK(env) THEN LegacyOK(env) ELSE TRUE

\* variant: no legacy fallback
Verified_PrimaryOnly(env) == PrimaryOK(env)

\* the digest test of readState: the primary check, then the legacy one
Verified(env) ==
    IF ~PrimaryOK(env) THEN LegacyOK(env) ELSE TRUE

\* the part of readState after the file is read
decodeState(buf) ==
    IF Len(buf) <= 0 THEN [ps |-> Nil, err |-> ErrLogNoState]
    ELSE
        LET env == UnmarshalEnvelope(buf)
        IN IF ~env.ok THEN [ps |-> Nil, err |-> ErrJSON]
           ELSE IF ~Verified(env.val) THEN [ps |-> Nil, err |-> ErrLogCorrupt]
           ELSE
               LET ps == UnmarshalState(env.val.Data)
               IN IF ~ps.ok THEN [ps |-> Nil, err |-> ErrJSON]
                  ELSE [ps |-> Ptr(ps.val), err |-> ErrNil]

readState(f, path) ==
    LET r == ReadFile(f, path)
    IN IF r.err # ErrNil THEN [ps |-> Nil, err |-> r.err, buf |-> << >>]
       ELSE LET d == decodeState(r.buf)
            IN [ps |-> d.ps, err |-> d.err, buf |-> r.buf]

\* variant: the digest of the historical scheme, sha1.New().Sum(buf)
encodeState_Legacy(ps) ==
    LET buf == MarshalState(ps)
    IN MarshalEnvelope(Envelope(buf \o Sum(<< >>), buf))

\* the bytes writeState hands to os.WriteFile for ps
encodeState(ps) ==
    LET buf == MarshalState(ps)
    IN MarshalEnvelope(Envelope(Sum(buf), buf))

(***************************************************************************)
(* The node's setters (node.go): each assigns one field under n.mu.         *)
(***************************************************************************)
setTerm(n, t) ==
    /\ MayCall("main", n)
    /\ phase[n] = "open"
    /\ mu[n] = ""
    /\ t \in Terms
    /\ term' = [term EXCEPT ![n] = t]
    /\ frame' = Outdated(frame)
    /\ UNCHANGED << vote, logPath, mu, phase, fs, pc >>

setVote(n, v) ==
    /\ MayCall("main", n)
    /\ phase[n] = "open"
    /\ mu[n] = ""
    /\ v \in Votes
    /\ vote' = [vote EXCEPT ![n] = v]
    /\ frame' = Outdated(frame)
    /\ UNCHANGED << term, logPath, mu, phase, fs, pc >>

(***************************************************************************)
(* initLog (log.go:31-51), called by New on a fresh Node.                   *)
(***************************************************************************)
\* variant: n.logPath is assigned before the file is opened
initLogOpen_SetPathFirst(t, n, path) ==
    /\ t = "main"
    /\ pc[t] = "idle"
    /\ phase[n] = "none"
    /\ path \in Paths
    /\ n = "n2" => (phase["n1"] = "open" /\ path = logPath["n1"])
    /\ logPath' = [logPath EXCEPT ![n] = path]
    /\ IF path = Denied
       THEN /\ pc' = [pc EXCEPT ![t] = "ret_init"]
            /\ frame' = [frame EXCEPT ![t] = [NoFrame EXCEPT !.n = n, !.err = EACCES]]
            /\ UNCHANGED << phase, fs >>
       ELSE /\ fs' = IF fs.exists THEN fs ELSE File(<< >>)
            /\ phase' = [phase EXCEPT ![n] = "init"]
            /\ pc' = [pc EXCEPT ![t] = "init_read"]
            /\ frame' = [frame EXCEPT ![t] = [NoFrame EXCEPT !.n = n, !.logPath = path]]
    /\ UNCHANGED << term, vote, mu >>

\* os.OpenFile(path, O_RDWR|O_CREATE, 0660); log.Close(); n.logPath = path
initLogOpen(t, n, path) ==
    /\ t = "main"
    /\ pc[t] = "idle"
    /\ phase[n] = "none"
    /\ path \in Paths
    /\ n = "n2" => (phase["n1"] = "open" /\ path = logPath["n1"])
    /\ IF path = Denied
       THEN /\ pc' = [pc EXCEPT ![t] = "ret_init"]
            /\ frame' = [frame EXCEPT ![t] = [NoFrame EXCEPT !.n = n, !.err = EACCES]]
            /\ UNCHANGED << logPath, phase, fs >>
       ELSE /\ fs' = IF fs.exists THEN fs ELSE File(<< >>)
            /\ logPath' = [logPath EXCEPT ![n] = path]
            /\ phase' = [phase EXCEPT ![n] = "init"]
            /\ pc' = [pc EXCEPT ![t] = "init_read"]
            /\ frame' = [frame EXCEPT ![t] = [NoFrame EXCEPT !.n = n, !.logPath = path]]
    /\ UNCHANGED << term, vote, mu >>

\* variant: the recovered vote is not set
initLogRead_NoVote(t) ==
    /\ pc[t] = "init_read"
    /\ LET n == frame[t].n
           r == readState(fs, frame[t].logPath)
       IN IF r.err # ErrNil /\ r.err # ErrLogNoState
          THEN /\ frame' = [frame EXCEPT ![t].err = r.err, ![t].buf = r.buf]
               /\ phase' = [phase EXCEPT ![n] = "failed"]
               /\ UNCHANGED << term, vote >>
          ELSE /\ IF r.ps # Nil
                  THEN /\ term' = [term EXCEPT ![n] = r.ps[1].CurrentTerm]
                       /\ UNCHANGED vote
                  ELSE UNCHANGED << term, vote >>
               /\ frame' = [frame EXCEPT ![t].err = ErrNil, ![t].buf = r.buf,
                                         ![t].rps = r.ps]
               /\ phase' = [phase EXCEPT ![n] = "open"]
    /\ pc' = [pc EXCEPT ![t] = "ret_init"]
    /\ UNCHANGED << logPath, mu, fs >>

\* variant: ErrLogNoState is returned like any other error
initLogRead_NoStateFails(t) ==
    /\ pc[t] = "init_read"
    /\ LET n == frame[t].n
           r == readState(fs, frame[t].logPath)
       IN IF r.err # ErrNil
          THEN /\ frame' = [frame EXCEPT ![t].err = r.err, ![t].buf = r.buf]
               /\ phase' = [phase EXCEPT ![n] = "failed"]
               /\ UNCHANGED << term, vote >>
          ELSE /\ IF r.ps # Nil
                  THEN /\ term' = [term EXCEPT ![n] = r.ps[1].CurrentTerm]
                       /\ vote' = [vote EXCEPT ![n] = r.ps[1].VotedFor]
                  ELSE UNCHANGED << term, vote >>
               /\ frame' = [frame EXCEPT ![t].err = ErrNil, ![t].buf = r.buf,
                                         ![t].rps = r.ps]
               /\ phase' = [phase EXCEPT ![n] = "open"]
    /\ pc' = [pc EXCEPT ![t] = "ret_init"]
    /\ UNCHANGED << logPath, mu, fs >>

\* variant: a load error is swallowed and the node starts fresh
initLogRead_IgnoreError(t) ==
    /\ pc[t] = "init_read"
    /\ LET n == frame[t].n
           r == readState(fs, frame[t].logPath)
       IN /\ IF r.ps # Nil
             THEN /\ term' = [term EXCEPT ![n] = r.ps[1].CurrentTerm]
                  /\ vote' = [vote EXCEPT ![n] = r.ps[1].VotedFor]
             ELSE UNCHANGED << term, vote >>
          /\ frame' = [frame EXCEPT ![t].err = ErrNil, ![t].buf = r.buf,
                                    ![t].rps = r.ps]
          /\ phase' = [phase EXCEPT ![n] = "open"]
    /\ pc' = [pc EXCEPT ![t] = "ret_init"]
    /\ UNCHANGED << logPath, mu, fs >>

\* ps, err := n.readState(path) and the rest of initLog
initLogRead(t) ==
    /\ pc[t] = "init_read"
    /\ LET n == frame[t].n
           r == readState(fs, frame[t].logPath)
       IN IF r.err # ErrNil /\ r.err # ErrLogNoState
          THEN /\ frame' = [frame EXCEPT ![t].err = r.err, ![t].buf = r.buf]
               /\ phase' = [phase EXCEPT ![n] = "failed"]
               /\ UNCHANGED << term, vote >>
          ELSE /\ IF r.ps # Nil
                  THEN /\ term' = [term EXCEPT ![n] = r.ps[1].CurrentTerm]
                       /\ vote' = [vote EXCEPT ![n] = r.ps[1].VotedFor]
                  ELSE UNCHANGED << term, vote >>
               /\ frame' = [frame EXCEPT ![t].err = ErrNil, ![t].buf = r.buf,
                                         ![t].rps = r.ps]
               /\ phase' = [phase EXCEPT ![n] = "open"]
    /\ pc' = [pc EXCEPT ![t] = "ret_init"]
    /\ UNCHANGED << logPath, mu, fs >>

(***************************************************************************)
(* closeLog (log.go:53-57).                                                 *)
(***************************************************************************)
\* os.Remove(path): the name goes; descriptors open on the file keep the
\* unlinked file, whose bytes no path reaches any more
Remove(f, path) ==
    IF path = Denied THEN [err |-> EACCES, fs |-> f]
    ELSE IF path # LogFile \/ ~f.exists THEN [err |-> ENOENT, fs |-> f]
    ELSE [err |-> ErrNil, fs |-> NoFile]

\* variant: n.logPath is cleared before os.Remove reads it
closeLog_ClearFirst(t, n) ==
    /\ t = "main"
    /\ pc[t] = "idle"
    /\ phase[n] \in {"open", "closed"}
    /\ LET r == Remove(fs, "")
       IN /\ fs' = r.fs
          /\ frame' = [frame EXCEPT ![t] = [NoFrame EXCEPT !.n = n, !.err = r.err]]
    /\ logPath' = [logPath EXCEPT ![n] = ""]
    /\ phase' = [phase EXCEPT ![n] = "closed"]
    /\ pc' = [pc EXCEPT ![t] = "ret_close"]
    /\ UNCHANGED << term, vote, mu >>

\* variant: the error of os.Remove is dropped
closeLog_SwallowError(t, n) ==
    /\ t = "main"
    /\ pc[t] = "idle"
    /\ phase[n] \in {"open", "closed"}
    /\ LET r == Remove(fs, logPath[n])
       IN /\ fs' = r.fs
          /\ frame' = [u \in Threads |->
                IF u = t THEN [NoFrame EXCEPT !.n = n]
                ELSE IF r.err = ErrNil /\ frame[u].fd = "open"
                     THEN [frame[u] EXCEPT !.fd = "unlinked"]
                     ELSE frame[u]]
    /\ logPath' = [logPath EXCEPT ![n] = ""]
    /\ phase' = [phase EXCEPT ![n] = "closed"]
    /\ pc' = [pc EXCEPT ![t] = "ret_close"]
    /\ UNCHANGED << term, vote, mu >>

closeLog(t, n) ==
    /\ t = "main"
    /\ pc[t] = "idle"
    /\ phase[n] \in {"open", "closed"}
    /\ LET r == Remove(fs, logPath[n])
       IN /\ fs' = r.fs
          /\ frame' = [u \in Threads |->
                IF u = t THEN [NoFrame EXCEPT !.n = n, !.err = r.err]
                ELSE IF r.err = ErrNil /\ frame[u].fd = "open"
                     THEN [frame[u] EXCEPT !.fd = "unlinked"]
                     ELSE frame[u]]
    /\ logPath' = [logPath EXCEPT ![n] = ""]
    /\ phase' = [phase EXCEPT ![n] = "closed"]
    /\ pc' = [pc EXCEPT ![t] = "ret_close"]
    /\ UNCHANGED << term, vote, mu >>

(***************************************************************************)
(* writeState (log.go:59-85).  The snapshot is taken under n.mu; the        *)
(* marshalling and os.WriteFile run after the unlock.  os.WriteFile opens   *)
(* the path with O_WRONLY|O_CREATE|O_TRUNC, writes from offset 0 in one or  *)
(* more write calls, and closes.                                            *)
(***************************************************************************)
\* variant: the mutex is not taken
writeStateLock_NoLock(t, n) ==
    /\ pc[t] = "idle"
    /\ MayCall(t, n)
    /\ phase[n] \in {"open", "closed"}
    /\ frame' = [frame EXCEPT ![t] =
                    [NoFrame EXCEPT !.n = n,
                                    !.ps = Ptr(PersistentState(term[n], NoVote))]]
    /\ pc' = [pc EXCEPT ![t] = "write_unlock"]
    /\ UNCHANGED << term, vote, logPath, mu, phase, fs >>

\* n.mu.Lock(); ps := persistentState{CurrentTerm: n.term, ...
writeStateLock(t, n) ==
    /\ pc[t] = "idle"
    /\ MayCall(t, n)
    /\ phase[n] \in {"open", "closed"}
    /\ mu[n] = ""
    /\ mu' = [mu EXCEPT ![n] = t]
    /\ frame' = [frame EXCEPT ![t] =
                    [NoFrame EXCEPT !.n = n,
                                    !.ps = Ptr(PersistentState(term[n], NoVote))]]
    /\ pc' = [pc EXCEPT ![t] = "write_unlock"]
    /\ UNCHANGED << term, vote, logPath, phase, fs >>

\* ... VotedFor: n.vote}; logPath := n.logPath; n.mu.Unlock();
\* buf, sha, env, toWrite
writeStateUnlock(t) ==
    /\ pc[t] = "write_unlock"
    /\ LET n == frame[t].n
           ps == PersistentState(frame[t].ps[1].CurrentTerm, vote[n])
       IN /\ mu' = [mu EXCEPT ![n] = ""]
          /\ frame' = [Outdated(frame) EXCEPT
                          ![t] = [frame[t] EXCEPT !.ps = Ptr(ps),
                                                  !.logPath = logPath[n],
                                                  !.toWrite = encodeState(ps),
                                                  !.latest = TRUE]]
    /\ pc' = [pc EXCEPT ![t] = "write_open"]
    /\ UNCHANGED << term, vote, logPath, phase, fs >>

\* variant: the file is opened without O_TRUNC
writeStateOpen_NoTrunc(t) ==
    /\ pc[t] = "write_open"
    /\ LET path == frame[t].logPath
       IN IF path = LogFile
          THEN /\ fs' = IF fs.exists THEN fs ELSE File(<< >>)
               /\ frame' = [frame EXCEPT ![t].fd = "open", ![t].off = 0]
               /\ pc' = [pc EXCEPT ![t] = "write_data"]
          ELSE /\ frame' = [frame EXCEPT ![t].err =
                                IF path = Denied THEN EACCES ELSE ENOENT]
               /\ pc' = [pc EXCEPT ![t] = "ret_write"]
               /\ UNCHANGED fs
    /\ UNCHANGED << term, vote, logPath, mu, phase >>

\* os.WriteFile: OpenFile(name, O_WRONLY|O_CREATE|O_TRUNC, perm)
writeStateOpen(t) ==
    /\ pc[t] = "write_open"
    /\ LET path == frame[t].logPath
       IN IF path = LogFile
          THEN /\ fs' = File(<< >>)
               /\ frame' = [frame EXCEPT ![t].fd = "open", ![t].off = 0]
               /\ pc' = [pc EXCEPT ![t] = "write_data"]
          ELSE /\ frame' = [frame EXCEPT ![t].err =
                                IF path = Denied THEN EACCES ELSE ENOENT]
               /\ pc' = [pc EXCEPT ![t] = "ret_write"]
               /\ UNCHANGED fs
    /\ UNCHANGED << term, vote, logPath, mu, phase >>

\* a write at offset off: bytes past the end are appended, a gap is zero-filled
WriteAt(data, off, chunk) ==
    IF off >= Len(data)
    THEN data \o [i \in 1..(off - Len(data)) |-> 0] \o chunk
    ELSE SubSeq(data, 1, off) \o chunk \o Tail_(data, off + Len(chunk) + 1)

\* os.WriteFile: f.Write(data), one write call of it; f.Close() after the last
writeStateData(t) ==
    /\ pc[t] = "write_data"
    /\ LET f == frame[t]
           k == Min(MaxChunk, Len(f.toWrite) - f.off)
           chunk == SubSeq(f.toWrite, f.off + 1, f.off + k)
           last == f.off + k = Len(f.toWrite)
       IN /\ fs' = IF f.fd = "open"
                   THEN File(WriteAt(fs.data, f.off, chunk))
                   ELSE fs
          /\ frame' = [frame EXCEPT ![t].off = f.off + k,
                                    ![t].fd = IF last THEN "none" ELSE f.fd]
          /\ pc' = [pc EXCEPT ![t] = IF last THEN "ret_write" ELSE "write_data"]
    /\ UNCHANGED << term, vote, logPath, mu, phase >>

\* os.WriteFile: a write call fails (no space left on the device)
writeStateFail(t) ==
    /\ pc[t] = "write_data"
    /\ frame' = [frame EXCEPT ![t].err = ENOSPC, ![t].fd = "none"]
    /\ pc' = [pc EXCEPT ![t] = "ret_write"]
    /\ UNCHANGED << term, vote, logPath, mu, phase, fs >>

(***************************************************************************)
(* readState called on a node's log, as testStateOfNode does.               *)
(***************************************************************************)
\* variant: a state that was read is written back in the current scheme
readStateCall_Migrate(t, n) ==
    /\ t = "main"
    /\ pc[t] = "idle"
    /\ phase[n] \in {"open", "closed"}
    /\ LET r == readState(fs, logPath[n])
       IN /\ frame' = [frame EXCEPT ![t] =
                          [NoFrame EXCEPT !.n = n, !.logPath = logPath[n],
                                          !.buf = r.buf, !.rps = r.ps, !.err = r.err]]
          /\ fs' = IF r.ps # Nil THEN File(encodeState(r.ps[1])) ELSE fs
    /\ pc' = [pc EXCEPT ![t] = "ret_read"]
    /\ UNCHANGED << term, vote, logPath, mu, phase >>

readStateCall(t, n) ==
    /\ t = "main"
    /\ pc[t] = "idle"
    /\ phase[n] \in {"open", "closed"}
    /\ LET r == readState(fs, logPath[n])
       IN frame' = [frame EXCEPT ![t] =
                       [NoFrame EXCEPT !.n = n, !.logPath = logPath[n],
                                       !.buf = r.buf, !.rps = r.ps, !.err = r.err]]
    /\ pc' = [pc EXCEPT ![t] = "ret_read"]
    /\ UNCHANGED << term, vote, logPath, mu, phase, fs >>

(***************************************************************************)
(* What the tests do to the file: TestCorruption replaces the envelope's    *)
(* Data, TestVerificationFallback replaces its SHA with the legacy digest.  *)
(* Both tests delay the node's elections first, so no call is in progress.  *)
(***************************************************************************)
corruptData(t, n) ==
    /\ t = "main"
    /\ pc[t] = "idle"
    /\ phase[n] = "open"
    /\ \A u \in Threads : pc[u] = "idle"
    /\ LET r == ReadFile(fs, logPath[n])
           env == UnmarshalEnvelope(r.buf)
       IN /\ r.err = ErrNil
          /\ env.ok
          /\ fs' = File(MarshalEnvelope(Envelope(env.val.SHA, Junk)))
    /\ UNCHANGED << term, vote, logPath, mu, phase, pc, frame >>

legacyDigest(t, n) ==
    /\ t = "main"
    /\ pc[t] = "idle"
    /\ phase[n] = "open"
    /\ \A u \in Threads : pc[u] = "idle"
    /\ LET r == ReadFile(fs, logPath[n])
           env == UnmarshalEnvelope(r.buf)
       IN /\ r.err = ErrNil
          /\ env.ok
          /\ fs' = File(MarshalEnvelope(
                            Envelope(env.val.Data \o Sum(<< >>), env.val.Data)))
    /\ UNCHANGED << term, vote, logPath, mu, phase, pc, frame >>

(***************************************************************************)
(* Control: a call returns to its caller; the process stops and every Node  *)
(* and goroutine is gone, the file system staying as it is.                 *)
(***************************************************************************)
Return(t) ==
    /\ pc[t] \in {"ret_init", "ret_close", "ret_write", "ret_read"}
    /\ pc' = [pc EXCEPT ![t] = "idle"]
    /\ frame' = [frame EXCEPT ![t] = NoFrame]
    /\ UNCHANGED << term, vote, logPath, mu, phase, fs >>

Crash ==
    /\ \E n \in Nodes : phase[n] # "none"
    /\ term' = [n \in Nodes |-> 0]
    /\ vote' = [n \in Nodes |-> NoVote]
    /\ logPath' = [n \in Nodes |-> ""]
    /\ mu' = [n \in Nodes |-> ""]
    /\ phase' = [n \in Nodes |-> "none"]
    /\ pc' = [t \in Threads |-> "idle"]
    /\ frame' = [t \in Threads |-> NoFrame]
    /\ UNCHANGED fs

\* the calls goroutine t makes on node n
Call(t, n) ==
    \/ \E path \in Paths : initLogOpen(t, n, path)
    \/ initLogRead(t)
    \/ closeLog(t, n)
    \/ writeStateLock(t, n)
    \/ writeStateUnlock(t)
    \/ writeStateOpen(t)
    \/ writeStateData(t)
    \/ writeStateFail(t)
    \/ readStateCall(t, n)
    \/ corruptData(t, n)
    \/ legacyDigest(t, n)
    \/ Return(t)

\* one node, used by its caller and by its own goroutine at the same time
Next ==
    \/ \E t \in Terms : setTerm("n1", t)
    \/ \E v \in Votes : setVote("n1", v)
    \/ \E t \in Threads : Call(t, "n1")
    \/ Crash

Spec == Init /\ [][Next]_vars

\* a second node opened on the first one's log, every call made by one caller
NextRestart ==
    \/ \E t \in Terms : setTerm("n1", t)
    \/ \E v \in Votes : setVote("n1", v)
    \/ \E n \in Nodes : Call("main", n)
    \/ Crash

SpecRestart == Init /\ [][NextRestart]_vars

(***************************************************************************)
(* Properties.                                                              *)
(***************************************************************************)
\* goroutine t has returned from a writeState that reported no error
Wrote(t) == pc[t] = "ret_write" /\ frame[t].err = ErrNil

\* goroutine t has returned from readState on a non-empty file that parsed
\* as an envelope
ReadEnvelope(t) ==
    /\ pc[t] = "ret_read"
    /\ Len(frame[t].buf) > 0
    /\ UnmarshalEnvelope(frame[t].buf).ok

\* C1 (round trip): when writeState has returned without error and no other
\* call touched the file, readState of the same path succeeds and returns
\* the CurrentTerm and VotedFor that were written.
C1_RoundTrip ==
    \A t \in Threads :
        Wrote(t) =>
            LET r == readState(fs, frame[t].logPath)
            IN /\ r.err = ErrNil
               /\ r.ps # Nil
               /\ r.ps[1].CurrentTerm = frame[t].ps[1].CurrentTerm
               /\ r.ps[1].VotedFor = frame[t].ps[1].VotedFor

C1_Witness ==
    /\ Wrote("main")
    /\ frame["main"].ps = Ptr(PersistentState(1, Foo))
    /\ readState(fs, LogFile).ps = Ptr(PersistentState(1, Foo))

\* C2 (atomic write): a step of writeState taken while the file holds a
\* valid persisted state leaves a file from which a restarted node recovers
\* either that old state or the state being written, never an empty or
\* corrupt file.
C2_AtomicWrite ==
    [][\A t \in Threads :
          LET old == readState(fs, LogFile)
              new == readState(fs', LogFile)
          IN (/\ pc[t] \in {"write_open", "write_data"}
              /\ frame'[t] # frame[t]
              /\ old.err = ErrNil)
             => (/\ new.err = ErrNil
                 /\ new.ps \in {old.ps, frame[t].ps})]_vars

\* C3 (restart): when a second node has been initialized on the log while
\* the file holds the first node's term and vote as written by writeState,
\* initLog succeeded and the second node's term and vote equal the first's.
C3_Restart ==
    \A t \in Threads :
        (/\ pc[t] = "ret_init"
         /\ frame[t].n = "n2"
         /\ phase["n1"] = "open"
         /\ fs = File(encodeState(PersistentState(term["n1"], vote["n1"]))))
        => (/\ frame[t].err = ErrNil
            /\ phase["n2"] = "open"
            /\ term["n2"] = term["n1"]
            /\ vote["n2"] = vote["n1"])

C3_Witness ==
    /\ pc["main"] = "ret_init"
    /\ frame["main"].n = "n2"
    /\ phase["n1"] = "open"
    /\ phase["n2"] = "open"
    /\ fs = File(encodeState(PersistentState(1, Foo)))
    /\ term["n1"] = 1 /\ vote["n1"] = Foo
    /\ term["n2"] = 1 /\ vote["n2"] = Foo

\* C4 (corruption detection): when the file read is non-empty and parses as
\* an envelope whose digest is neither hash(payload) nor payload ++
\* hash(empty), readState returns ErrLogCorrupt and no state.
C4_CorruptionDetected ==
    \A t \in Threads :
        ReadEnvelope(t) =>
            LET env == UnmarshalEnvelope(frame[t].buf).val
            IN (env.SHA # Sum(env.Data) /\ env.SHA # env.Data \o Sum(<< >>))
               => (frame[t].err = ErrLogCorrupt /\ frame[t].rps = Nil)

C4_Witness ==
    /\ ReadEnvelope("main")
    /\ UnmarshalEnvelope(frame["main"].buf).val.Data = Junk
    /\ UnmarshalEnvelope(frame["main"].buf).val.SHA
           = Sum(MarshalState(PersistentState(1, Foo)))
    /\ frame["main"].err = ErrLogCorrupt

\* C5 (legacy compatibility): when the file read parses as an envelope
\* whose payload is a serialized state and whose digest is hash(payload) or
\* the legacy payload ++ hash(empty), readState succeeds and returns the
\* state decoded from the payload; either check passing is enough.
C5_LegacyAccepted ==
    \A t \in Threads :
        ReadEnvelope(t) =>
            LET env == UnmarshalEnvelope(frame[t].buf).val
                st == UnmarshalState(env.Data)
            IN ((env.SHA = Sum(env.Data) \/ env.SHA = env.Data \o Sum(<< >>))
                /\ st.ok)
               => (frame[t].err = ErrNil /\ frame[t].rps = Ptr(st.val))

C5_Witness ==
    /\ ReadEnvelope("main")
    /\ LET env == UnmarshalEnvelope(frame["main"].buf).val
       IN /\ env.Data = MarshalState(PersistentState(1, Foo))
          /\ env.SHA = env.Data \o Sum(<< >>)
          /\ env.SHA # Sum(env.Data)
    /\ frame["main"].err = ErrNil
    /\ frame["main"].rps = Ptr(PersistentState(1, Foo))

\* C6 (no-prior-state sentinel): readState returns ErrLogNoState exactly
\* when the file exists and is empty; a missing or unreadable file gives an
\* I/O error instead.
C6_NoStateSentinel ==
    \A t \in Threads :
        pc[t] = "ret_read" =>
            LET path == frame[t].logPath
                there == path = LogFile /\ fs.exists
            IN /\ frame[t].err = ErrLogNoState <=> (there /\ Len(fs.data) = 0)
               /\ frame[t].err = ErrLogNoState => frame[t].rps = Nil
               /\ ~there => frame[t].err \in {ENOENT, EACCES}

C6_Witness ==
    /\ pc["main"] = "ret_read"
    /\ fs = File(<< >>)
    /\ frame["main"].err = ErrLogNoState

\* C7 (digest correctness): after a successful writeState the file holds an
\* envelope whose payload is the serialized state written and whose digest
\* is hash(payload), the current scheme and not the legacy one, so it
\* passes readState's primary check.
C7_DigestCorrect ==
    \A t \in Threads :
        Wrote(t) =>
            LET env == UnmarshalEnvelope(fs.data)
            IN /\ fs.exists
               /\ env.ok
               /\ env.val.Data = MarshalState(frame[t].ps[1])
               /\ env.val.SHA = Sum(env.val.Data)
               /\ env.val.SHA # env.val.Data \o Sum(<< >>)
               /\ Len(env.val.SHA) = Size

C7_Witness ==
    /\ Wrote("main")
    /\ frame["main"].ps = Ptr(PersistentState(0, Foo))
    /\ UnmarshalEnvelope(fs.data).ok
    /\ UnmarshalEnvelope(fs.data).val.SHA
           = Sum(MarshalState(PersistentState(0, Foo)))

\* C8 (decode failures are corruption): when the file read is non-empty and
\* either does not parse as an envelope, or passes a digest check but its
\* payload does not decode into a state, readState returns ErrLogCorrupt.
C8_DecodeFailureIsCorrupt ==
    \A t \in Threads :
        (pc[t] = "ret_read" /\ Len(frame[t].buf) > 0) =>
            LET env == UnmarshalEnvelope(frame[t].buf)
            IN (\/ ~env.ok
                \/ /\ (PrimaryOK(env.val) \/ LegacyOK(env.val))
                   /\ ~UnmarshalState(env.val.Data).ok)
               => frame[t].err = ErrLogCorrupt

\* C9 (whole-file overwrite): the step that completes a successful
\* writeState leaves the file holding exactly the bytes of the envelope of
\* the state written, whatever it held before, and readState returns that
\* state; a term lower than the persisted one is written like any other.
C9_WholeFileOverwrite ==
    [][\A t \in Threads :
          (pc[t] = "write_data" /\ pc'[t] = "ret_write" /\ frame'[t].err = ErrNil)
          => (/\ fs'.exists
              /\ fs'.data = frame[t].toWrite
              /\ UnmarshalEnvelope(fs'.data).ok
              /\ UnmarshalEnvelope(fs'.data).val.Data = MarshalState(frame[t].ps[1])
              /\ readState(fs', frame[t].logPath).ps = frame[t].ps)]_vars

\* the second node recovered term 1 from the file, and the first node has
\* since written term 0 over it
C9_Witness ==
    /\ Wrote("main")
    /\ frame["main"].n = "n1"
    /\ frame["main"].ps = Ptr(PersistentState(0, NoVote))
    /\ phase["n2"] = "open"
    /\ term["n2"] = 1 /\ vote["n2"] = Foo
    /\ fs.data = frame["main"].toWrite
    /\ readState(fs, LogFile).ps = Ptr(PersistentState(0, NoVote))

\* C10 (initialize without a file): initLog on a path with no file creates
\* an empty file; the ErrLogNoState of its load is not returned, and the
\* node's term and vote stay at their defaults.
C10_InitCreatesEmpty ==
    [][\A t \in Threads :
          /\ (pc[t] = "idle" /\ pc'[t] = "init_read" /\ ~fs.exists)
             => (fs'.exists /\ Len(fs'.data) = 0)
          /\ (/\ pc[t] = "init_read"
              /\ pc'[t] = "ret_init"
              /\ readState(fs, frame[t].logPath).err = ErrLogNoState)
             => (/\ frame'[t].err = ErrNil
                 /\ phase'[frame[t].n] = "open"
                 /\ fs' = fs
                 /\ term'[frame[t].n] = term[frame[t].n]
                 /\ vote'[frame[t].n] = vote[frame[t].n]
                 /\ term'[frame[t].n] = 0
                 /\ vote'[frame[t].n] = NoVote)]_vars

C10_Witness ==
    /\ pc["main"] = "ret_init"
    /\ frame["main"].n = "n1"
    /\ frame["main"].err = ErrNil
    /\ frame["main"].rps = Nil
    /\ phase["n1"] = "open"
    /\ fs = File(<< >>)
    /\ term["n1"] = 0 /\ vote["n1"] = NoVote

\* C11 (initialize on a corrupt file): when the backing file is not empty
\* and its load fails, initLog returns the load's error, leaves the node's
\* term and vote as they were and leaves the file's bytes as they were.
C11_InitCorruptFails ==
    [][\A t \in Threads :
          LET r == readState(fs, frame[t].logPath)
          IN (/\ pc[t] = "init_read"
              /\ pc'[t] = "ret_init"
              /\ fs.exists /\ Len(fs.data) > 0
              /\ r.err # ErrNil)
             => (/\ frame'[t].err = r.err
                 /\ frame'[t].err \in {ErrLogCorrupt, ErrJSON}
                 /\ phase'[frame[t].n] # "open"
                 /\ term' = term
                 /\ vote' = vote
                 /\ fs' = fs)]_vars

C11_Witness ==
    /\ pc["main"] = "ret_init"
    /\ frame["main"].n = "n1"
    /\ frame["main"].err = ErrLogCorrupt
    /\ phase["n1"] = "failed"
    /\ term["n1"] = 0 /\ vote["n1"] = NoVote
    /\ fs = File(frame["main"].buf)
    /\ UnmarshalEnvelope(fs.data).ok
    /\ UnmarshalEnvelope(fs.data).val.Data = Junk

\* C12 (permission failure): when the backing file cannot be created or
\* opened, initLog returns the I/O error at once: no load follows, the
\* node's logPath, term and vote and the file are unchanged, and no node
\* ever works on that path.
C12_PermissionFailure ==
    [][/\ \A t \in Threads :
            (pc[t] = "idle" /\ pc'[t] = "ret_init")
            => (/\ frame'[t].err = EACCES
                /\ frame'[t].buf = << >>
                /\ frame'[t].rps = Nil
                /\ logPath' = logPath
                /\ term' = term
                /\ vote' = vote
                /\ phase' = phase
                /\ phase'[frame'[t].n] = "none"
                /\ fs' = fs)
       /\ \A n \in Nodes : logPath'[n] # Denied
       /\ \A t \in Threads : frame'[t].logPath # Denied]_vars

C12_Witness ==
    /\ pc["main"] = "ret_init"
    /\ frame["main"].n = "n1"
    /\ frame["main"].err = EACCES
    /\ phase["n1"] = "none"
    /\ logPath["n1"] = ""
    /\ term["n1"] = 0 /\ vote["n1"] = NoVote

\* C13 (close removes the file): when closeLog returns on a node whose
\* initLog succeeded, no file exists at the path.
C13_CloseRemoves ==
    [][\A t \in Threads :
          (/\ pc[t] = "idle"
           /\ pc'[t] = "ret_close"
           /\ phase[frame'[t].n] = "open")
          => (/\ ~fs'.exists
              /\ ReadFile(fs', LogFile).err = ENOENT)]_vars

C13_Witness ==
    /\ pc["main"] = "ret_close"
    /\ frame["main"].n = "n1"
    /\ frame["main"].err = ErrNil
    /\ phase["n1"] = "closed"
    /\ ~fs.exists

\* C14 (read has no side effects): a readState call changes neither the
\* file nor any node's term, vote or logPath, whatever it returns, and the
\* load inside initLog does not change the file either; a legacy envelope
\* is still the same legacy envelope after it was read.
C14_ReadNoSideEffect ==
    [][\A t \in Threads :
          /\ (pc[t] = "idle" /\ pc'[t] = "ret_read")
             => (/\ fs' = fs
                 /\ term' = term
                 /\ vote' = vote
                 /\ logPath' = logPath
                 /\ frame'[t].buf = (IF fs.exists /\ frame'[t].logPath = LogFile
                                     THEN fs'.data ELSE << >>))
          /\ (pc[t] = "init_read" /\ pc'[t] = "ret_init")
             => (fs' = fs /\ logPath' = logPath)]_vars

\* a legacy envelope was read and accepted, and the file still holds it
C14_Witness ==
    /\ pc["main"] = "ret_read"
    /\ frame["main"].err = ErrNil
    /\ frame["main"].rps = Ptr(PersistentState(1, Foo))
    /\ fs = File(frame["main"].buf)
    /\ LET env == UnmarshalEnvelope(fs.data).val
       IN /\ env.SHA = env.Data \o Sum(<< >>)
          /\ env.SHA # Sum(env.Data)
    /\ term["n1"] = 0

\* C15 (consistent snapshot): the state a writeState call persists is the
\* node's term and vote of one instant: while the call holds n.mu the term
\* it has read is still the node's term, and when it unlocks, its ps is the
\* node's (term, vote) of that moment and toWrite is the envelope of ps,
\* also with setTerm and setVote running beside the call.
C15_ConsistentSnapshot ==
    [][\A t \in Threads :
          /\ pc[t] = "write_unlock"
             => (/\ mu[frame[t].n] = t
                 /\ frame[t].ps[1].CurrentTerm = term[frame[t].n])
          /\ (pc[t] = "write_unlock" /\ pc'[t] = "write_open")
             => (/\ frame'[t].ps =
                        Ptr(PersistentState(term[frame[t].n], vote[frame[t].n]))
                 /\ term' = term
                 /\ vote' = vote
                 /\ decodeState(frame'[t].toWrite).ps = frame'[t].ps)]_vars

\* the call holds the snapshot (1, "foo") and the node has gone on to term 0
C15_Witness ==
    /\ pc["bg"] = "write_data"
    /\ frame["bg"].ps = Ptr(PersistentState(1, Foo))
    /\ decodeState(frame["bg"].toWrite).ps = Ptr(PersistentState(1, Foo))
    /\ term["n1"] = 0
    /\ vote["n1"] = NoVote

\* C16 (one overwrite at a time): two writeState calls on a node are never
\* both inside their overwrite of the backing file.
C16_OneOverwrite ==
    \A t, u \in Threads :
        (/\ t # u
         /\ frame[t].n = frame[u].n
         /\ pc[t] = "write_data"
         /\ pc[u] = "write_data")
        => FALSE

\* C17 (the latest state is saved): when the writeState calls have all
\* returned without error and one of them holds the node's most recent
\* snapshot, with no setTerm or setVote after it, readState returns that
\* snapshot, which is the node's term and vote.
C17_LatestSaved ==
    (/\ \A t \in Threads : Wrote(t)
     /\ \E t \in Threads : frame[t].latest)
    => LET r == readState(fs, LogFile)
       IN /\ r.err = ErrNil
          /\ r.ps = Ptr(PersistentState(term["n1"], vote["n1"]))
          /\ \A t \in Threads : frame[t].latest => r.ps = frame[t].ps

\* C18 (no file after close): once closeLog has returned on a node, no
\* step creates the backing file again until an initLog does.
C18_StaysAbsent ==
    [][(phase["n1"] = "closed" /\ ~fs.exists)
       => (\/ ~fs'.exists
           \/ \E t \in Threads : pc[t] = "idle" /\ pc'[t] = "init_read")]_vars

\* C19 (close surfaces a failed deletion): when the file cannot be deleted
\* (already removed, or the node was closed before), closeLog returns the
\* error; it clears n.logPath whether or not the deletion succeeded.
C19_CloseSurfacesError ==
    [][\A t \in Threads :
          (pc[t] = "idle" /\ pc'[t] = "ret_close")
          => LET n == frame'[t].n
             IN /\ logPath'[n] = ""
                /\ (~fs.exists \/ logPath[n] # LogFile)
                   => (frame'[t].err = ENOENT /\ fs' = fs)
                /\ (fs.exists /\ logPath[n] = LogFile)
                   => (frame'[t].err = ErrNil /\ ~fs'.exists)]_vars

\* the second node closes after the first one removed the file
C19_Witness ==
    /\ pc["main"] = "ret_close"
    /\ frame["main"].n = "n2"
    /\ frame["main"].err = ENOENT
    /\ phase["n1"] = "closed"
    /\ phase["n2"] = "closed"
    /\ logPath["n2"] = ""
    /\ ~fs.exists

====
